---- MODULE Spec2Model ----
(***************************************************************************)
(* SPARQL Burger query builder (SPARQLBurger/SPARQLQueryBuilder.py).       *)
(*                                                                         *)
(* State: a heap of builder objects, two SPARQLGraphPattern objects, two   *)
(* SPARQLSelectQuery objects and one SPARQLUpdateQuery object, plus the    *)
(* value returned by the last call.  Nested objects are held by reference, *)
(* as in Python.                                                           *)
(*                                                                         *)
(* Texts are sequences of tokens.  Every blank, newline, brace and         *)
(* punctuation character of a format string is a token of its own;         *)
(* keywords and caller-supplied strings are single tokens.                 *)
(***************************************************************************)
EXTENDS Integers, Sequences, FiniteSets, TLC

VARIABLES pattern, query, result, call

vars == <<pattern, query, result, call>>
heap == <<pattern, query>>

(* ------------------------------ bounds --------------------------------- *)

\* largest number of caller-supplied items (constructor flags, list
\* elements, pattern references) held by the heap
MaxHeap == 3
\* largest indentation depth passed to a top-level get_text call
MaxDepth == 1
\* longest list passed to add_triples and add_variables
MaxArgLen == 2

(* ------------------------------ objects -------------------------------- *)

PatternIds == {1, 2}
SelectIds == {1, 2}
UpdateIds == {3}
QueryIds == SelectIds \cup UpdateIds

\* a where, delete or insert attribute that is None
None == [type |-> "NoneType", id |-> 0]

\* Ownership order S1 < G1 < S2 < G2: an object only refers to objects that
\* come later, so that no object is nested in itself.
PatternRank(g) == 2 * g
SelectRank(q) == 2 * q - 1

(* ------------------------------ values --------------------------------- *)

Ref(t, i) == [type |-> t, id |-> i]
PatternRefs == {Ref("SPARQLGraphPattern", g) : g \in PatternIds}
SelectRefs == {Ref("SPARQLSelectQuery", q) : q \in SelectIds}

Triples ==
    {[type |-> "Triple", subject |-> "?s1", predicate |-> "p1", object |-> "o1"],
     [type |-> "Triple", subject |-> "?s2", predicate |-> "p2", object |-> "o2"]}
Filters == {[type |-> "Filter", expression |-> "e1"]}
Bindings == {[type |-> "Binding", value |-> "v1", variable |-> "?x"]}
Havings == {[type |-> "Having", expression |-> "h1"]}
GroupBys == {[type |-> "GroupBy", variables |-> "?g"]}
OrderBys == {[type |-> "OrderBy", variables |-> "?o"]}
Prefixes == {[type |-> "Prefix", prefix |-> "ex", namespace |-> "http://www.example.com#"]}

\* a plain string, which is no syntax term and has no get_text method
StrValue == [type |-> "str", val |-> "x"]
\* variable names
VarNames == {[type |-> "str", val |-> "?a"], [type |-> "str", val |-> "?b"]}

SyntaxTerms == Triples \cup Filters \cup Bindings \cup Havings \cup GroupBys
                 \cup OrderBys \cup Prefixes

\* values of a wrong variant that a caller may pass to any operation
WrongArgs ==
    {StrValue, [type |-> "Triple", subject |-> "?s1", predicate |-> "p1", object |-> "o1"],
     Ref("SPARQLSelectQuery", 2), Ref("SPARQLGraphPattern", 2)}

\* the arguments a caller passes where one object of type t is expected:
\* the objects of that type, and objects of other types
Args(t) ==
    {v \in SyntaxTerms \cup PatternRefs \cup SelectRefs : v.type = t}
        \cup {v \in WrongArgs : v.type # t}

\* the sequences of at most n distinct elements of S
SeqsUpTo(S, n) ==
    {s \in UNION {[1..k -> S] : k \in 0..n} :
        \A i, j \in DOMAIN s : s[i] = s[j] => i = j}

List(items) == [type |-> "list", items |-> items]

\* the arguments a caller passes to add_triples: lists of distinct triples
\* and other values, and values that are no list
TripleArgs ==
    {List(s) : s \in SeqsUpTo(Triples \cup {StrValue}, MaxArgLen)}
        \cup Triples \cup {StrValue}

\* the arguments a caller passes to add_variables: lists of distinct strings
\* and other values, and values that are no list
VariableArgs ==
    {List(s) : s \in SeqsUpTo(VarNames \cup Filters, MaxArgLen)}
        \cup VarNames

\* the arguments a caller passes to SPARQLSelectQuery.add_having
HavingArgs == Havings \cup {StrValue}

\* an integer indentation depth, and a depth that is no integer
IntArg(n) == [type |-> "int", val |-> n]
NoneArg == [type |-> "NoneType", val |-> 0]
DepthArgs == {IntArg(n) : n \in 0..MaxDepth} \cup {NoneArg}

(* ------------------------------ results -------------------------------- *)

Str(text) == [kind |-> "str", text |-> text]
PyTrue == [kind |-> "bool", val |-> TRUE]
PyFalse == [kind |-> "bool", val |-> FALSE]
NoResult == [kind |-> "none"]

\* Python truth value of a returned value
Truthy(r) == IF r.kind = "str" THEN r.text # <<>> ELSE r = PyTrue

(* ------------------------ texts of syntax terms ------------------------ *)

\* Prefix.get_text: "PREFIX <prefix>: <<namespace>>" and a newline
Prefix_get_text(p) ==
    <<"PREFIX", " ", p.prefix, ":", " ", "<", p.namespace, ">", "\n">>

\* Triple.get_text: "<subject> <predicate> <object> ." and a newline
Triple_get_text(t) ==
    <<t.subject, " ", t.predicate, " ", t.object, " ", ".", "\n">>

\* Filter.get_text: "FILTER (<expression>)"
Filter_get_text(f) == <<"FILTER", " ", "(", f.expression, ")">>

\* Binding.get_text: "BIND (<value> AS <variable>)"
Binding_get_text(b) ==
    <<"BIND", " ", "(", b.value, " ", "AS", " ", b.variable, ")">>

\* Having.get_text: "HAVING (<expression>)"
Having_get_text(h) == <<"HAVING", " ", "(", h.expression, ")">>

\* GroupBy.get_text: "GROUP BY <variables>"
GroupBy_get_text(g) == <<"GROUP", " ", "BY", " ", g.variables>>

\* OrderBy.get_text: "ORDER BY <variables>"
OrderBy_get_text(o) == <<"ORDER", " ", "BY", " ", o.variables>>

\* whether a value has a get_text method
HasGetText(v) == v \in SyntaxTerms

\* v.get_text() of a syntax term
Term_get_text(v) ==
    CASE v.type = "Prefix" -> Prefix_get_text(v)
      [] v.type = "Triple" -> Triple_get_text(v)
      [] v.type = "Filter" -> Filter_get_text(v)
      [] v.type = "Binding" -> Binding_get_text(v)
      [] v.type = "Having" -> Having_get_text(v)
      [] v.type = "GroupBy" -> GroupBy_get_text(v)
      [] v.type = "OrderBy" -> OrderBy_get_text(v)

(* ------------------------------ helpers -------------------------------- *)

\* indentation_depth * "   "
Indentation(d) == [i \in 1..(3 * d) |-> " "]

\* text[:-1]
DropLast(text) == SubSeq(text, 1, Len(text) - 1)

RECURSIVE Flatten(_)
\* the concatenation of a sequence of texts
Flatten(texts) ==
    IF texts = <<>> THEN <<>> ELSE Head(texts) \o Flatten(Tail(texts))

RECURSIVE Join(_)
\* " ".join(variables)
Join(variables) ==
    IF variables = <<>> THEN <<>>
    ELSE IF Len(variables) = 1 THEN <<variables[1].val>>
    ELSE <<variables[1].val, " ">> \o Join(Tail(variables))

(* ------------------------------ get_text ------------------------------- *)

RECURSIVE SPARQLGraphPattern_get_text(_, _)
RECURSIVE SPARQLSelectQuery_get_text(_, _)
RECURSIVE GraphEntries(_, _, _, _)

\* a variant of GraphEntries that skips a nested pattern or query whose text
\* is empty instead of returning False
GraphEntries_SkipsFailed(g, d, i, query_text) ==
    IF i > Len(pattern[g].graph) THEN Str(query_text)
    ELSE
        LET entry == pattern[g].graph[i]
            inner_indentation == Indentation(d + 1)
            nested_text ==
                CASE entry.type = "Triple" ->
                        Str(inner_indentation \o Triple_get_text(entry))
                  [] entry.type = "SPARQLGraphPattern" ->
                        SPARQLGraphPattern_get_text(entry.id, IntArg(d + 1))
                  [] entry.type = "SPARQLSelectQuery" ->
                        LET nested_select_text ==
                                SPARQLSelectQuery_get_text(entry.id, IntArg(d + 2))
                        IN  IF Truthy(nested_select_text)
                            THEN Str(inner_indentation \o <<"{">>
                                     \o nested_select_text.text
                                     \o inner_indentation \o <<"}", "\n">>)
                            ELSE nested_select_text
                  [] OTHER -> Str(<<>>)
        IN  GraphEntries(g, d, i + 1,
                query_text \o (IF Truthy(nested_text) THEN nested_text.text
                                                      ELSE <<>>))

\* The loop over self.graph of SPARQLGraphPattern.get_text, from entry i on,
\* with query_text the text built so far: the text with the entries appended,
\* or False as soon as a nested text is empty or False.
GraphEntries(g, d, i, query_text) ==
    IF i > Len(pattern[g].graph) THEN Str(query_text)
    ELSE
        LET entry == pattern[g].graph[i]
            inner_indentation == Indentation(d + 1)
        IN  CASE entry.type = "Triple" ->
                    GraphEntries(g, d, i + 1,
                        query_text \o inner_indentation \o Triple_get_text(entry))
              [] entry.type = "SPARQLGraphPattern" ->
                    LET nested_graph_text ==
                            SPARQLGraphPattern_get_text(entry.id, IntArg(d + 1))
                    IN  IF Truthy(nested_graph_text)
                        THEN GraphEntries(g, d, i + 1,
                                 query_text \o nested_graph_text.text)
                        ELSE PyFalse
              [] entry.type = "SPARQLSelectQuery" ->
                    LET nested_select_text ==
                            SPARQLSelectQuery_get_text(entry.id, IntArg(d + 2))
                    IN  IF Truthy(nested_select_text)
                        THEN GraphEntries(g, d, i + 1,
                                 query_text \o inner_indentation \o <<"{">>
                                     \o nested_select_text.text
                                     \o inner_indentation \o <<"}", "\n">>)
                        ELSE PyFalse
              [] OTHER -> GraphEntries(g, d, i + 1, query_text)

\* a variant of GraphOpening that looks at is_union before is_optional
GraphOpening_UnionFirst(g, d) ==
    LET outer_indentation == Indentation(d)
    IN  IF pattern[g].is_union
        THEN outer_indentation \o <<"UNION", "\n">>
                 \o outer_indentation \o <<"{", "\n">>
        ELSE IF pattern[g].is_optional
        THEN outer_indentation \o <<"OPTIONAL", " ", "{", "\n">>
        ELSE outer_indentation \o <<"{", "\n">>

\* the opening line(s) of a graph pattern
GraphOpening(g, d) ==
    LET outer_indentation == Indentation(d)
    IN  IF pattern[g].is_optional
        THEN outer_indentation \o <<"OPTIONAL", " ", "{", "\n">>
        ELSE IF pattern[g].is_union
        THEN outer_indentation \o <<"UNION", "\n">>
                 \o outer_indentation \o <<"{", "\n">>
        ELSE outer_indentation \o <<"{", "\n">>

\* a variant of SPARQLGraphPattern_get_text that appends the filters before
\* the bindings
SPARQLGraphPattern_get_text_FiltersFirst(g, indentation_depth) ==
    IF indentation_depth.type # "int"
    THEN Str(<<>>)
    ELSE
        LET d == indentation_depth.val
            outer_indentation == Indentation(d)
            inner_indentation == Indentation(d + 1)
            entries == GraphEntries(g, d, 1, GraphOpening(g, d))
        IN  IF entries.kind # "str" THEN entries
            ELSE Str(entries.text
                     \o Flatten([i \in 1..Len(pattern[g].filters) |->
                            inner_indentation
                                \o Filter_get_text(pattern[g].filters[i])
                                \o <<"\n">>])
                     \o Flatten([i \in 1..Len(pattern[g].bindings) |->
                            inner_indentation
                                \o Binding_get_text(pattern[g].bindings[i])
                                \o <<"\n">>])
                     \o outer_indentation \o <<"}", "\n">>)

\* SPARQLGraphPattern.get_text(indentation_depth): a text, the empty text
\* when an exception was raised, or False when a nested text was empty.
SPARQLGraphPattern_get_text(g, indentation_depth) ==
    IF indentation_depth.type # "int"
    THEN Str(<<>>)                 \* TypeError in the indentation, caught
    ELSE
        LET d == indentation_depth.val
            outer_indentation == Indentation(d)
            inner_indentation == Indentation(d + 1)
            entries == GraphEntries(g, d, 1, GraphOpening(g, d))
        IN  IF entries.kind # "str" THEN entries
            ELSE Str(entries.text
                     \o Flatten([i \in 1..Len(pattern[g].bindings) |->
                            inner_indentation
                                \o Binding_get_text(pattern[g].bindings[i])
                                \o <<"\n">>])
                     \o Flatten([i \in 1..Len(pattern[g].filters) |->
                            inner_indentation
                                \o Filter_get_text(pattern[g].filters[i])
                                \o <<"\n">>])
                     \o outer_indentation \o <<"}", "\n">>)

\* The text of a WHERE, DELETE or INSERT clause, as a sequence of at most one
\* text: "\n<outer><keyword> " and the pattern's text less its last
\* character; nothing when the attribute is None.  Subscripting False raises.
ClauseRaises(p, indentation_depth) ==
    /\ p # None
    /\ SPARQLGraphPattern_get_text(p.id, indentation_depth).kind # "str"

ClauseText(keyword, p, indentation_depth) ==
    <<"\n">> \o Indentation(indentation_depth.val) \o <<keyword, " ">>
        \o (IF p = None THEN <<>>
            ELSE DropLast(SPARQLGraphPattern_get_text(p.id, indentation_depth).text))

\* the prefix texts of a query
PrefixTexts(q) ==
    Flatten([i \in 1..Len(query[q].prefixes) |->
                Prefix_get_text(query[q].prefixes[i])])

\* "\n<outer><clause text>" for each clause of a list
ClauseLines(clauses, d) ==
    Flatten([i \in 1..Len(clauses) |->
                <<"\n">> \o Indentation(d) \o Term_get_text(clauses[i])])

\* a variant of SPARQLSelectQuery_get_text that appends the ORDER BY clauses
\* before the HAVING clauses
SPARQLSelectQuery_get_text_OrderFirst(q, indentation_depth) ==
    LET self == query[q] IN
    IF \/ indentation_depth.type # "int"
       \/ ClauseRaises(self.where, indentation_depth)
       \/ \E i \in 1..Len(self.having) : ~HasGetText(self.having[i])
    THEN Str(<<>>)
    ELSE
        LET d == indentation_depth.val
            outer_indentation == Indentation(d)
            distinct_token == IF self.distinct THEN <<"DISTINCT", " ">> ELSE <<>>
        IN  Str(PrefixTexts(q)
                \o <<"\n">> \o outer_indentation \o <<"SELECT", " ">>
                \o distinct_token
                \o (IF self.variables # <<>> THEN Join(self.variables)
                    ELSE <<" ", "*">>)
                \o ClauseText("WHERE", self.where, indentation_depth)
                \o ClauseLines(self.group_by, d)
                \o ClauseLines(self.order_by, d)
                \o ClauseLines(self.having, d)
                \o (IF self.limit # 0
                    THEN <<"\n", "LIMIT", " ", ToString(self.limit)>>
                    ELSE <<>>))

\* SPARQLSelectQuery.get_text(indentation_depth): a text, the empty text when
\* an exception was raised.
SPARQLSelectQuery_get_text(q, indentation_depth) ==
    LET self == query[q] IN
    IF \/ indentation_depth.type # "int"
       \/ ClauseRaises(self.where, indentation_depth)
       \/ \E i \in 1..Len(self.having) : ~HasGetText(self.having[i])
    THEN Str(<<>>)
    ELSE
        LET d == indentation_depth.val
            outer_indentation == Indentation(d)
            distinct_token == IF self.distinct THEN <<"DISTINCT", " ">> ELSE <<>>
        IN  Str(PrefixTexts(q)
                \o <<"\n">> \o outer_indentation \o <<"SELECT", " ">>
                \o distinct_token
                \o (IF self.variables # <<>> THEN Join(self.variables)
                    ELSE <<" ", "*">>)
                \o ClauseText("WHERE", self.where, indentation_depth)
                \o ClauseLines(self.group_by, d)
                \o ClauseLines(self.having, d)
                \o ClauseLines(self.order_by, d)
                \o (IF self.limit # 0
                    THEN <<"\n", "LIMIT", " ", ToString(self.limit)>>
                    ELSE <<>>))

\* a variant of SPARQLUpdateQuery_get_text that emits INSERT before DELETE
SPARQLUpdateQuery_get_text_InsertFirst(q, indentation_depth) ==
    LET self == query[q] IN
    IF \/ indentation_depth.type # "int"
       \/ ClauseRaises(self.delete, indentation_depth)
       \/ ClauseRaises(self.insert, indentation_depth)
       \/ ClauseRaises(self.where, indentation_depth)
    THEN Str(<<>>)
    ELSE Str(PrefixTexts(q)
             \o (IF self.insert # None
                 THEN ClauseText("INSERT", self.insert, indentation_depth)
                 ELSE <<>>)
             \o (IF self.delete # None
                 THEN ClauseText("DELETE", self.delete, indentation_depth)
                 ELSE <<>>)
             \o (IF self.where # None
                 THEN ClauseText("WHERE", self.where, indentation_depth)
                 ELSE <<>>))

\* SPARQLUpdateQuery.get_text(indentation_depth): a text, the empty text when
\* an exception was raised.
SPARQLUpdateQuery_get_text(q, indentation_depth) ==
    LET self == query[q] IN
    IF \/ indentation_depth.type # "int"
       \/ ClauseRaises(self.delete, indentation_depth)
       \/ ClauseRaises(self.insert, indentation_depth)
       \/ ClauseRaises(self.where, indentation_depth)
    THEN Str(<<>>)
    ELSE Str(PrefixTexts(q)
             \o (IF self.delete # None
                 THEN ClauseText("DELETE", self.delete, indentation_depth)
                 ELSE <<>>)
             \o (IF self.insert # None
                 THEN ClauseText("INSERT", self.insert, indentation_depth)
                 ELSE <<>>)
             \o (IF self.where # None
                 THEN ClauseText("WHERE", self.where, indentation_depth)
                 ELSE <<>>))

\* obj.get_text(indentation_depth) of a graph pattern or query
get_text(obj, indentation_depth) ==
    CASE obj.type = "SPARQLGraphPattern" ->
            SPARQLGraphPattern_get_text(obj.id, indentation_depth)
      [] obj.type = "SPARQLSelectQuery" ->
            SPARQLSelectQuery_get_text(obj.id, indentation_depth)
      [] obj.type = "SPARQLUpdateQuery" ->
            SPARQLUpdateQuery_get_text(obj.id, indentation_depth)

(* ---------------------------- constructors ----------------------------- *)

\* SPARQLQuery.add_popular_prefixes: the six prefixes it adds, in order
PopularPrefixes ==
    <<[type |-> "Prefix", prefix |-> "rdf",
       namespace |-> "http://www.w3.org/1999/02/22-rdf-syntax-ns#"],
      [type |-> "Prefix", prefix |-> "rdfs",
       namespace |-> "http://www.w3.org/2000/01/rdf-schema#"],
      [type |-> "Prefix", prefix |-> "xml",
       namespace |-> "http://www.w3.org/2001/XMLSchema#"],
      [type |-> "Prefix", prefix |-> "owl",
       namespace |-> "http://www.w3.org/2002/07/owl#"],
      [type |-> "Prefix", prefix |-> "prov",
       namespace |-> "http://www.w3.org/ns/prov#"],
      [type |-> "Prefix", prefix |-> "foaf",
       namespace |-> "http://xmlns.com/foaf/0.1/"]>>

\* SPARQLGraphPattern(optional, union)
NewGraphPattern(optional, union) ==
    [is_optional |-> optional, is_union |-> union, graph |-> <<>>,
     filters |-> <<>>, bindings |-> <<>>, havings |-> <<>>]

\* SPARQLSelectQuery(distinct, limit, include_popular_prefixes); a limit of 0
\* stands for the default, False
NewSelectQuery(distinct, limit, include_popular_prefixes) ==
    [cls |-> "SPARQLSelectQuery",
     prefixes |-> IF include_popular_prefixes THEN PopularPrefixes ELSE <<>>,
     where |-> None, distinct |-> distinct, limit |-> limit,
     variables |-> <<>>, group_by |-> <<>>, having |-> <<>>, order_by |-> <<>>]

\* SPARQLUpdateQuery(include_popular_prefixes)
NewUpdateQuery(include_popular_prefixes) ==
    [cls |-> "SPARQLUpdateQuery",
     prefixes |-> IF include_popular_prefixes THEN PopularPrefixes ELSE <<>>,
     where |-> None, delete |-> None, insert |-> None]

Limits == {0, 10}

(* ------------------------- size of the heap ---------------------------- *)

Bit(b) == IF b THEN 1 ELSE 0

RECURSIVE Sum(_, _)
Sum(f, S) ==
    IF S = {} THEN 0
    ELSE LET x == CHOOSE y \in S : TRUE IN f[x] + Sum(f, S \ {x})

HasPopular(q) == Len(q.prefixes) >= Len(PopularPrefixes) /\ q.prefixes[1].prefix = "rdf"

PatternSize(p) ==
    Bit(p.is_optional) + Bit(p.is_union) + Len(p.graph) + Len(p.filters)
        + Len(p.bindings) + Len(p.havings)

QuerySize(q) ==
    IF HasPopular(q)
    THEN 1 + Len(q.prefixes) - Len(PopularPrefixes) + Bit(q.where # None)
    ELSE Len(q.prefixes) + Bit(q.where # None)

SelectSize(q) ==
    QuerySize(q) + Bit(q.distinct) + Bit(q.limit # 0) + Len(q.variables)
        + Len(q.group_by) + Len(q.having) + Len(q.order_by)

UpdateSize(q) == QuerySize(q) + Bit(q.delete # None) + Bit(q.insert # None)

\* the number of caller-supplied items held by the heap
Size(pat, qry) ==
    Sum([g \in PatternIds |-> PatternSize(pat[g])], PatternIds)
        + Sum([q \in QueryIds |->
                  IF q \in SelectIds THEN SelectSize(qry[q])
                  ELSE UpdateSize(qry[q])], QueryIds)

Fits == Size(pattern', query') <= MaxHeap

(* -------------------------------- Init --------------------------------- *)

NoCall == [op |-> "none"]
Mutator == [op |-> "mutator"]

PatternCtors == {NewGraphPattern(o, u) : o \in BOOLEAN, u \in BOOLEAN}
SelectCtors ==
    {NewSelectQuery(d, l, i) : d \in BOOLEAN, l \in Limits, i \in BOOLEAN}
UpdateCtors == {NewUpdateQuery(i) : i \in BOOLEAN}

\* the state after the objects are constructed with the arguments P (graph
\* patterns), S (select queries) and U (update queries)
Constructed(P, S, U) ==
    /\ pattern \in [PatternIds -> P]
    /\ \E sel \in [SelectIds -> S], upd \in [UpdateIds -> U] :
          query = [q \in QueryIds |->
                      IF q \in SelectIds THEN sel[q] ELSE upd[q]]
    /\ Size(pattern, query) <= MaxHeap
    /\ result = NoResult
    /\ call = NoCall

Init == Constructed(PatternCtors, SelectCtors, UpdateCtors)

(* ------------------------ SPARQLGraphPattern --------------------------- *)

Accept == result' = PyTrue /\ call' = Mutator /\ Fits
Reject == result' = PyFalse /\ call' = Mutator /\ UNCHANGED heap

IsListOf(arg, types) ==
    /\ arg.type = "list"
    /\ \A i \in 1..Len(arg.items) : arg.items[i].type \in types

\* a variant of add_triples that appends the elements of a list up to its
\* first element that is not a Triple before it returns False
SPARQLGraphPattern_add_triples_Partial(g, triples) ==
    IF IsListOf(triples, {"Triple"})
    THEN /\ pattern' = [pattern EXCEPT ![g].graph = @ \o triples.items]
         /\ UNCHANGED query
         /\ Accept
    ELSE IF triples.type = "list"
    THEN LET first == CHOOSE i \in 1..Len(triples.items) :
                          /\ triples.items[i].type # "Triple"
                          /\ \A j \in 1..(i - 1) : triples.items[j].type = "Triple"
         IN  /\ pattern' = [pattern EXCEPT
                                ![g].graph = @ \o SubSeq(triples.items, 1, first - 1)]
             /\ UNCHANGED query
             /\ result' = PyFalse
             /\ call' = Mutator
             /\ Fits
    ELSE Reject

\* SPARQLGraphPattern.add_triples(triples)
SPARQLGraphPattern_add_triples(g, triples) ==
    IF IsListOf(triples, {"Triple"})
    THEN /\ pattern' = [pattern EXCEPT ![g].graph = @ \o triples.items]
         /\ UNCHANGED query
         /\ Accept
    ELSE Reject

SPARQLGraphPattern_add_nested_graph_pattern(g, graph_pattern) ==
    IF graph_pattern.type = "SPARQLGraphPattern"
    THEN /\ PatternRank(g) < PatternRank(graph_pattern.id)
         /\ pattern' = [pattern EXCEPT ![g].graph = Append(@, graph_pattern)]
         /\ UNCHANGED query
         /\ Accept
    ELSE Reject

SPARQLGraphPattern_add_nested_select_query(g, select_query) ==
    IF select_query.type = "SPARQLSelectQuery"
    THEN /\ PatternRank(g) < SelectRank(select_query.id)
         /\ pattern' = [pattern EXCEPT ![g].graph = Append(@, select_query)]
         /\ UNCHANGED query
         /\ Accept
    ELSE Reject

SPARQLGraphPattern_add_filter(g, filter) ==
    IF filter.type = "Filter"
    THEN /\ pattern' = [pattern EXCEPT ![g].filters = Append(@, filter)]
         /\ UNCHANGED query
         /\ Accept
    ELSE Reject

SPARQLGraphPattern_add_having(g, having) ==
    IF having.type = "Having"
    THEN /\ pattern' = [pattern EXCEPT ![g].havings = Append(@, having)]
         /\ UNCHANGED query
         /\ Accept
    ELSE Reject

SPARQLGraphPattern_add_binding(g, binding) ==
    IF binding.type = "Binding"
    THEN /\ pattern' = [pattern EXCEPT ![g].bindings = Append(@, binding)]
         /\ UNCHANGED query
         /\ Accept
    ELSE Reject

(* ----------------------------- SPARQLQuery ----------------------------- *)

SPARQLQuery_add_prefix(q, prefix) ==
    IF prefix.type = "Prefix"
    THEN /\ query' = [query EXCEPT ![q].prefixes = Append(@, prefix)]
         /\ UNCHANGED pattern
         /\ Accept
    ELSE Reject

SPARQLQuery_set_where_pattern(q, graph_pattern) ==
    IF graph_pattern.type = "SPARQLGraphPattern"
    THEN /\ q \in SelectIds => SelectRank(q) < PatternRank(graph_pattern.id)
         /\ query' = [query EXCEPT ![q].where = graph_pattern]
         /\ UNCHANGED pattern
         /\ Accept
    ELSE Reject

(* -------------------------- SPARQLSelectQuery -------------------------- *)

SPARQLSelectQuery_add_variables(q, variables) ==
    IF IsListOf(variables, {"str"})
    THEN /\ query' = [query EXCEPT ![q].variables = @ \o variables.items]
         /\ UNCHANGED pattern
         /\ Accept
    ELSE Reject

SPARQLSelectQuery_add_group_by(q, group) ==
    IF group.type = "GroupBy"
    THEN /\ query' = [query EXCEPT ![q].group_by = Append(@, group)]
         /\ UNCHANGED pattern
         /\ Accept
    ELSE Reject

SPARQLSelectQuery_add_order_by(q, order) ==
    IF order.type = "OrderBy"
    THEN /\ query' = [query EXCEPT ![q].order_by = Append(@, order)]
         /\ UNCHANGED pattern
         /\ Accept
    ELSE Reject

\* appends whatever it is given
SPARQLSelectQuery_add_having(q, having) ==
    /\ query' = [query EXCEPT ![q].having = Append(@, having)]
    /\ UNCHANGED pattern
    /\ Accept

(* -------------------------- SPARQLUpdateQuery -------------------------- *)

SPARQLUpdateQuery_set_delete_pattern(q, graph_pattern) ==
    IF graph_pattern.type = "SPARQLGraphPattern"
    THEN /\ query' = [query EXCEPT ![q].delete = graph_pattern]
         /\ UNCHANGED pattern
         /\ Accept
    ELSE Reject

SPARQLUpdateQuery_set_insert_pattern(q, graph_pattern) ==
    IF graph_pattern.type = "SPARQLGraphPattern"
    THEN /\ query' = [query EXCEPT ![q].insert = graph_pattern]
         /\ UNCHANGED pattern
         /\ Accept
    ELSE Reject

(* ------------------------------ rendering ------------------------------ *)

UpdateRefs == {Ref("SPARQLUpdateQuery", q) : q \in UpdateIds}
Renderable == PatternRefs \cup SelectRefs \cup UpdateRefs

\* a variant of Render in which the render of a select query without
\* variables stores the "*" it emits in the query
Render_StoresProjection(obj, indentation_depth) ==
    /\ result' = get_text(obj, indentation_depth)
    /\ call' = [op |-> "get_text", self |-> obj, depth |-> indentation_depth]
    /\ pattern' = pattern
    /\ query' = IF obj.type = "SPARQLSelectQuery" /\ query[obj.id].variables = <<>>
                THEN [query EXCEPT ![obj.id].variables = <<"*">>]
                ELSE query

\* a call obj.get_text(indentation_depth): returns the text, assigns nothing
Render(obj, indentation_depth) ==
    /\ result' = get_text(obj, indentation_depth)
    /\ call' = [op |-> "get_text", self |-> obj, depth |-> indentation_depth]
    /\ UNCHANGED heap

(* -------------------------------- Next --------------------------------- *)

\* every call a caller can make
Next ==
    \/ \E g \in PatternIds, a \in TripleArgs :
           SPARQLGraphPattern_add_triples(g, a)
    \/ \E g \in PatternIds, a \in Args("SPARQLGraphPattern") :
           SPARQLGraphPattern_add_nested_graph_pattern(g, a)
    \/ \E g \in PatternIds, a \in Args("SPARQLSelectQuery") :
           SPARQLGraphPattern_add_nested_select_query(g, a)
    \/ \E g \in PatternIds, a \in Args("Filter") :
           SPARQLGraphPattern_add_filter(g, a)
    \/ \E g \in PatternIds, a \in Args("Having") :
           SPARQLGraphPattern_add_having(g, a)
    \/ \E g \in PatternIds, a \in Args("Binding") :
           SPARQLGraphPattern_add_binding(g, a)
    \/ \E q \in QueryIds, a \in Args("Prefix") :
           SPARQLQuery_add_prefix(q, a)
    \/ \E q \in QueryIds, a \in Args("SPARQLGraphPattern") :
           SPARQLQuery_set_where_pattern(q, a)
    \/ \E q \in SelectIds, a \in VariableArgs :
           SPARQLSelectQuery_add_variables(q, a)
    \/ \E q \in SelectIds, a \in Args("GroupBy") :
           SPARQLSelectQuery_add_group_by(q, a)
    \/ \E q \in SelectIds, a \in Args("OrderBy") :
           SPARQLSelectQuery_add_order_by(q, a)
    \/ \E q \in SelectIds, a \in HavingArgs :
           SPARQLSelectQuery_add_having(q, a)
    \/ \E q \in UpdateIds, a \in Args("SPARQLGraphPattern") :
           SPARQLUpdateQuery_set_delete_pattern(q, a)
    \/ \E q \in UpdateIds, a \in Args("SPARQLGraphPattern") :
           SPARQLUpdateQuery_set_insert_pattern(q, a)
    \/ \E obj \in Renderable, d \in DepthArgs :
           Render(obj, d)

Spec == Init /\ [][Next]_vars

(***************************************************************************)
(* The behaviours of Spec are explored in three parts.  Each part builds   *)
(* one kind of object in full, with constructor arguments of its own       *)
(* choice, and of the other kinds what can be nested in it; every          *)
(* behaviour of a part is a behaviour of Spec.                             *)
(***************************************************************************)

\* the select query that is nested in graph patterns
NestedSelectIds == {2}
\* the select query that is a query of its own
RootSelectIds == SelectIds \ NestedSelectIds

DefaultPattern == {NewGraphPattern(FALSE, FALSE)}
DefaultSelect == {NewSelectQuery(FALSE, 0, FALSE)}
DefaultUpdate == {NewUpdateQuery(FALSE)}

\* graph patterns: every call on a graph pattern
NextGraphPattern ==
    \/ \E g \in PatternIds, a \in TripleArgs :
           SPARQLGraphPattern_add_triples(g, a)
    \/ \E g \in PatternIds, a \in Args("SPARQLGraphPattern") :
           SPARQLGraphPattern_add_nested_graph_pattern(g, a)
    \/ \E g \in PatternIds, a \in Args("SPARQLSelectQuery") :
           SPARQLGraphPattern_add_nested_select_query(g, a)
    \/ \E g \in PatternIds, a \in Args("Filter") :
           SPARQLGraphPattern_add_filter(g, a)
    \/ \E g \in PatternIds, a \in Args("Having") :
           SPARQLGraphPattern_add_having(g, a)
    \/ \E g \in PatternIds, a \in Args("Binding") :
           SPARQLGraphPattern_add_binding(g, a)
    \/ \E obj \in PatternRefs, d \in DepthArgs :
           Render(obj, d)

SpecGraphPattern ==
    Constructed(PatternCtors, DefaultSelect, DefaultUpdate)
        /\ [][NextGraphPattern]_vars

\* select queries: every call on a select query, on a where pattern that
\* holds triples
NextSelectQuery ==
    \/ \E g \in PatternIds, a \in TripleArgs :
           SPARQLGraphPattern_add_triples(g, a)
    \/ \E q \in RootSelectIds, a \in Args("Prefix") :
           SPARQLQuery_add_prefix(q, a)
    \/ \E q \in RootSelectIds, a \in Args("SPARQLGraphPattern") :
           SPARQLQuery_set_where_pattern(q, a)
    \/ \E q \in RootSelectIds, a \in VariableArgs :
           SPARQLSelectQuery_add_variables(q, a)
    \/ \E q \in RootSelectIds, a \in Args("GroupBy") :
           SPARQLSelectQuery_add_group_by(q, a)
    \/ \E q \in RootSelectIds, a \in Args("OrderBy") :
           SPARQLSelectQuery_add_order_by(q, a)
    \/ \E q \in RootSelectIds, a \in HavingArgs :
           SPARQLSelectQuery_add_having(q, a)
    \/ \E obj \in {Ref("SPARQLSelectQuery", q) : q \in RootSelectIds},
          d \in DepthArgs :
           Render(obj, d)

SpecSelectQuery ==
    Constructed(DefaultPattern, SelectCtors, DefaultUpdate)
        /\ [][NextSelectQuery]_vars

\* queries and what is nested in them: every call on an update query, the
\* where pattern of a select query, the nesting of graph patterns and select
\* queries in graph patterns, and the having of the nested select query
NextQuery ==
    \/ \E q \in UpdateIds, a \in Args("Prefix") :
           SPARQLQuery_add_prefix(q, a)
    \/ \E q \in QueryIds, a \in Args("SPARQLGraphPattern") :
           SPARQLQuery_set_where_pattern(q, a)
    \/ \E q \in UpdateIds, a \in Args("SPARQLGraphPattern") :
           SPARQLUpdateQuery_set_delete_pattern(q, a)
    \/ \E q \in UpdateIds, a \in Args("SPARQLGraphPattern") :
           SPARQLUpdateQuery_set_insert_pattern(q, a)
    \/ \E g \in PatternIds, a \in Args("SPARQLGraphPattern") :
           SPARQLGraphPattern_add_nested_graph_pattern(g, a)
    \/ \E g \in PatternIds, a \in Args("SPARQLSelectQuery") :
           SPARQLGraphPattern_add_nested_select_query(g, a)
    \/ \E q \in NestedSelectIds, a \in HavingArgs :
           SPARQLSelectQuery_add_having(q, a)
    \/ \E obj \in Renderable, d \in DepthArgs :
           Render(obj, d)

SpecQuery ==
    Constructed(DefaultPattern, DefaultSelect, UpdateCtors)
        /\ [][NextQuery]_vars

\* the entries of graph patterns: triples and nested patterns are added to
\* the patterns, and the patterns are rendered
NextEntries ==
    \/ \E g \in PatternIds, a \in TripleArgs :
           SPARQLGraphPattern_add_triples(g, a)
    \/ \E g \in PatternIds, a \in Args("SPARQLGraphPattern") :
           SPARQLGraphPattern_add_nested_graph_pattern(g, a)
    \/ \E obj \in PatternRefs, d \in DepthArgs :
           Render(obj, d)

SpecEntries ==
    Constructed(PatternCtors, DefaultSelect, DefaultUpdate)
        /\ [][NextEntries]_vars

(***************************************************************************)
(* Properties                                                              *)
(***************************************************************************)

(* ----------------------------- reading texts --------------------------- *)

\* the position of the first newline of a text, 0 when it has none
FirstNewline(text) ==
    IF \E i \in 1..Len(text) : text[i] = "\n"
    THEN CHOOSE i \in 1..Len(text) :
             text[i] = "\n" /\ \A j \in 1..(i - 1) : text[j] # "\n"
    ELSE 0

RECURSIVE Lines(_)
\* the lines of a text, without their newlines
Lines(text) ==
    IF text = <<>> THEN <<>>
    ELSE LET n == FirstNewline(text)
         IN  IF n = 0 THEN <<text>>
             ELSE <<SubSeq(text, 1, n - 1)>> \o Lines(SubSeq(text, n + 1, Len(text)))

\* the number of blanks a line starts with
Indent(line) ==
    IF \A i \in 1..Len(line) : line[i] = " " THEN Len(line)
    ELSE (CHOOSE i \in 1..Len(line) :
              line[i] # " " /\ \A j \in 1..(i - 1) : line[j] = " ") - 1

\* a line without the blanks it starts with
Unindented(line) == SubSeq(line, Indent(line) + 1, Len(line))

\* the first token of a line after its indentation, "" for a blank line
FirstToken(line) ==
    IF Unindented(line) = <<>> THEN "" ELSE Unindented(line)[1]

\* how often a token occurs in a text
Count(text, token) == Cardinality({i \in 1..Len(text) : text[i] = token})

\* the number of blocks open before position i of a text
BraceDepth(text, i) ==
    Count(SubSeq(text, 1, i - 1), "{") - Count(SubSeq(text, 1, i - 1), "}")

\* the tokens of a text that stand outside every block
TopLevel(text) ==
    SelectSeq([i \in 1..Len(text) |-> <<text[i], BraceDepth(text, i)>>],
              LAMBDA x : x[2] = 0 /\ x[1] # "}")

\* the tokens among keywords of a text outside every block, in order
TopLevelKeywords(text, keywords) ==
    LET top == TopLevel(text)
    IN  SelectSeq([i \in 1..Len(top) |-> top[i][1]], LAMBDA t : t \in keywords)

\* the last call was obj.get_text(depth) of an object of one of the types
Rendered(types) == call.op = "get_text" /\ call.self.type \in types

QueryTypes == {"SPARQLSelectQuery", "SPARQLUpdateQuery"}

\* a render that failed: it returned the empty text, or no text at all
Failed(r) == r.kind # "str" \/ r.text = <<>>

\* the graph patterns attached to query q
QueryPatterns(q) ==
    ({query[q].where}
        \cup (IF q \in UpdateIds THEN {query[q].delete, query[q].insert} ELSE {}))
        \ {None}

RECURSIVE Below(_, _)
\* the nodes nested at any depth below node obj, each with the depth it is
\* rendered at when obj is rendered at depth d
Below(obj, d) ==
    IF obj.type = "SPARQLGraphPattern"
    THEN UNION {LET e == pattern[obj.id].graph[i]
                IN  CASE e.type = "SPARQLGraphPattern" ->
                            {<<e, d + 1>>} \cup Below(e, d + 1)
                      [] e.type = "SPARQLSelectQuery" ->
                            {<<e, d + 2>>} \cup Below(e, d + 2)
                      [] OTHER -> {} :
                i \in 1..Len(pattern[obj.id].graph)}
    ELSE IF query[obj.id].where = None THEN {}
    ELSE {<<query[obj.id].where, d>>} \cup Below(query[obj.id].where, d)

\* the render of a pattern of the query just rendered, or of a node nested
\* below it, fails
SomeRenderBelowFails ==
    \E p \in QueryPatterns(call.self.id) :
        \/ Failed(get_text(p, call.depth))
        \/ /\ call.depth.type = "int"
           /\ \E n \in Below(p, call.depth.val) :
                  Failed(get_text(n[1], IntArg(n[2])))

\* C1: when a select or update query is rendered and the render of its
\* where, delete or insert pattern, or of a node nested at any depth below
\* that pattern, fails, the query's get_text returns the empty text.
C1_AllOrNothing ==
    (Rendered(QueryTypes) /\ SomeRenderBelowFails) => result = Str(<<>>)

\* C1 witness: a query was rendered at an integer depth while the render of a
\* select query nested below its pattern fails, and returned the empty text
C1_Witness ==
    /\ Rendered(QueryTypes)
    /\ call.depth.type = "int"
    /\ \E p \in QueryPatterns(call.self.id) :
          \E n \in Below(p, call.depth.val) :
              /\ n[1].type = "SPARQLSelectQuery"
              /\ Failed(get_text(n[1], IntArg(n[2])))
    /\ result = Str(<<>>)

\* C6: get_text of a graph pattern always returns a text, also when the
\* render of a nested graph pattern or select query fails.
C6_RenderReturnsText ==
    Rendered({"SPARQLGraphPattern"}) => result.kind = "str"

\* the last call rendered an object of one of the types at an integer depth
\* and returned a text that is not empty
RenderedText(types) ==
    Rendered(types) /\ call.depth.type = "int" /\ ~Failed(result)

\* C3: a select query without DISTINCT renders its projection as "SELECT *",
\* with one blank, when it has no variables, and as "SELECT " followed by
\* the variables joined by single blanks when it has some.
C3_Projection ==
    RenderedText({"SPARQLSelectQuery"}) =>
        LET self == query[call.self.id]
            lines == Lines(result.text)
            first == CHOOSE i \in 1..Len(lines) :
                         /\ FirstToken(lines[i]) = "SELECT"
                         /\ \A j \in 1..(i - 1) : FirstToken(lines[j]) # "SELECT"
            projection == Unindented(lines[first])
        IN  ~self.distinct =>
                IF self.variables = <<>>
                THEN projection = <<"SELECT", " ", "*">>
                ELSE projection = <<"SELECT", " ">> \o Join(self.variables)

UpdateKeywords == {"PREFIX", "DELETE", "INSERT", "WHERE"}

\* the keywords an update query is to emit: one PREFIX for each prefix, then
\* DELETE, INSERT and WHERE for the patterns that are set
ExpectedUpdateKeywords(self) ==
    [i \in 1..Len(self.prefixes) |-> "PREFIX"]
        \o (IF self.delete # None THEN <<"DELETE">> ELSE <<>>)
        \o (IF self.insert # None THEN <<"INSERT">> ELSE <<>>)
        \o (IF self.where # None THEN <<"WHERE">> ELSE <<>>)

\* C7: the text of an update query, when no render of a pattern of it fails,
\* holds outside the blocks one DELETE, INSERT and WHERE keyword for each
\* pattern that is set and none for a pattern that is not, after all
\* prefixes, in the order DELETE, INSERT, WHERE, each followed by one block.
C7_UpdateClauses ==
    (/\ Rendered({"SPARQLUpdateQuery"})
     /\ call.depth.type = "int"
     /\ \A p \in QueryPatterns(call.self.id) : ~Failed(get_text(p, call.depth)))
        => /\ result.kind = "str"
           /\ TopLevelKeywords(result.text, UpdateKeywords)
                  = ExpectedUpdateKeywords(query[call.self.id])
           /\ Len(TopLevelKeywords(result.text, {"{"}))
                  = Cardinality({f \in {"delete", "insert", "where"} :
                                    query[call.self.id][f] # None})

\* C7 witness: an update query with its three patterns set was rendered
C7_Witness ==
    /\ RenderedText({"SPARQLUpdateQuery"})
    /\ query[call.self.id].delete # None
    /\ query[call.self.id].insert # None
    /\ query[call.self.id].where # None
    /\ TopLevelKeywords(result.text, UpdateKeywords)
           = <<"DELETE", "INSERT", "WHERE">>

\* C10: the text of a graph pattern rendered at depth d opens with the line
\* "OPTIONAL {" when the pattern is optional, and then holds no UNION line
\* of its own; with the lines "UNION" and "{" when it is a union and not
\* optional; and with the line "{" otherwise, each indented by 3*d blanks.
C10_OpeningLine ==
    RenderedText({"SPARQLGraphPattern"}) =>
        LET self == pattern[call.self.id]
            lines == Lines(result.text)
            outer == Indentation(call.depth.val)
        IN  IF self.is_optional
            THEN /\ lines[1] = outer \o <<"OPTIONAL", " ", "{">>
                 /\ \A i \in 1..Len(lines) : lines[i] # outer \o <<"UNION">>
            ELSE IF self.is_union
            THEN /\ lines[1] = outer \o <<"UNION">>
                 /\ lines[2] = outer \o <<"{">>
            ELSE lines[1] = outer \o <<"{">>

\* C10 witness: a graph pattern that is optional and a union was rendered at
\* a depth above 0
C10_Witness ==
    /\ RenderedText({"SPARQLGraphPattern"})
    /\ call.depth.val > 0
    /\ pattern[call.self.id].is_optional
    /\ pattern[call.self.id].is_union

\* a call of an add or set operation with an argument that is not of the
\* variant the operation takes (for add_triples: not a list of Triples only)
WrongVariantCall ==
    \/ \E g \in PatternIds :
          \/ \E a \in TripleArgs :
                ~IsListOf(a, {"Triple"}) /\ SPARQLGraphPattern_add_triples(g, a)
          \/ \E a \in Args("SPARQLGraphPattern") :
                /\ a.type # "SPARQLGraphPattern"
                /\ SPARQLGraphPattern_add_nested_graph_pattern(g, a)
          \/ \E a \in Args("SPARQLSelectQuery") :
                /\ a.type # "SPARQLSelectQuery"
                /\ SPARQLGraphPattern_add_nested_select_query(g, a)
          \/ \E a \in Args("Filter") :
                a.type # "Filter" /\ SPARQLGraphPattern_add_filter(g, a)
          \/ \E a \in Args("Having") :
                a.type # "Having" /\ SPARQLGraphPattern_add_having(g, a)
          \/ \E a \in Args("Binding") :
                a.type # "Binding" /\ SPARQLGraphPattern_add_binding(g, a)
    \/ \E q \in QueryIds :
          \/ \E a \in Args("Prefix") :
                a.type # "Prefix" /\ SPARQLQuery_add_prefix(q, a)
          \/ \E a \in Args("SPARQLGraphPattern") :
                a.type # "SPARQLGraphPattern" /\ SPARQLQuery_set_where_pattern(q, a)
    \/ \E q \in SelectIds :
          \/ \E a \in VariableArgs :
                a.type # "list" /\ SPARQLSelectQuery_add_variables(q, a)
          \/ \E a \in Args("GroupBy") :
                a.type # "GroupBy" /\ SPARQLSelectQuery_add_group_by(q, a)
          \/ \E a \in Args("OrderBy") :
                a.type # "OrderBy" /\ SPARQLSelectQuery_add_order_by(q, a)
          \/ \E a \in HavingArgs :
                a.type # "Having" /\ SPARQLSelectQuery_add_having(q, a)
    \/ \E q \in UpdateIds :
          \/ \E a \in Args("SPARQLGraphPattern") :
                /\ a.type # "SPARQLGraphPattern"
                /\ SPARQLUpdateQuery_set_delete_pattern(q, a)
          \/ \E a \in Args("SPARQLGraphPattern") :
                /\ a.type # "SPARQLGraphPattern"
                /\ SPARQLUpdateQuery_set_insert_pattern(q, a)

\* C2: every add or set operation called with an argument of the wrong
\* variant returns False and leaves every object as it was.
C2_WrongVariantRejected ==
    [][WrongVariantCall => (result' = PyFalse /\ heap' = heap)]_vars

\* the lines of a text hold only closing braces that stand alone on a line
\* indented as the line that opened their block, and every block is closed;
\* open holds the indentation of the lines that opened the blocks still open
RECURSIVE BlocksClosed(_, _)
BlocksClosed(lines, open) ==
    IF lines = <<>> THEN open = <<>>
    ELSE LET line == Head(lines) IN
         IF Count(line, "}") > 0
         THEN /\ Unindented(line) = <<"}">>
              /\ open # <<>>
              /\ Head(open) = Indent(line)
              /\ BlocksClosed(Tail(lines), Tail(open))
         ELSE BlocksClosed(Tail(lines),
                  [i \in 1..Count(line, "{") |-> Indent(line)] \o open)

\* C4: the text of a graph pattern tree, nested select queries with a WHERE
\* pattern included, holds as many opening as closing braces, and the
\* closing brace of every block stands alone on a line indented as the
\* line that opened the block.
C4_BlocksClosed ==
    (/\ RenderedText({"SPARQLGraphPattern"})
     /\ \A n \in Below(call.self, call.depth.val) :
            n[1].type = "SPARQLSelectQuery" => query[n[1].id].where # None)
        => /\ Count(result.text, "{") = Count(result.text, "}")
           /\ BlocksClosed(Lines(result.text), <<>>)

\* the number of blocks open where line i of the lines starts
LineDepth(lines, i) ==
    LET above == Flatten(SubSeq(lines, 1, i - 1))
    IN  Count(above, "{") - Count(above, "}")

SelectKeywords == {"SELECT", "WHERE", "GROUP", "HAVING", "ORDER", "LIMIT"}

\* the first tokens of the lines of triples, bindings and filters
LeafHeads == {"BIND", "FILTER"} \cup {t.subject : t \in Triples}

\* C5: rendered at depth d, the SELECT, WHERE, GROUP BY, HAVING, ORDER BY
\* and LIMIT lines of a select query are indented by 3*d blanks; the
\* opening and closing lines of a graph pattern are indented by 3*d blanks
\* and the lines of its triples, bindings and filters by 3*(d+1) blanks.
C5_Indentation ==
    LET d == call.depth.val
        lines == Lines(result.text)
    IN  /\ RenderedText({"SPARQLSelectQuery"}) =>
               \A i \in 1..Len(lines) :
                   (LineDepth(lines, i) = 0 /\ FirstToken(lines[i]) \in SelectKeywords)
                       => Indent(lines[i]) = 3 * d
        /\ RenderedText({"SPARQLGraphPattern"}) =>
               /\ Indent(lines[1]) = 3 * d
               /\ FirstToken(lines[1]) = "UNION" => Indent(lines[2]) = 3 * d
               /\ lines[Len(lines)] = Indentation(d) \o <<"}">>
               /\ \A i \in 1..Len(lines) :
                      (LineDepth(lines, i) = 1 /\ FirstToken(lines[i]) \in LeafHeads)
                          => Indent(lines[i]) = 3 * (d + 1)

\* C8: add_triples called with a list of Triples only returns True and
\* appends all of them, in their order, to the entries of the pattern;
\* called with anything else it returns False and the entries are as they
\* were, with none of the elements appended.
C8_AddTriplesAtomic ==
    [][\A g \in PatternIds : \A a \in TripleArgs :
           (call' = Mutator /\ SPARQLGraphPattern_add_triples(g, a)) =>
               IF a.type = "list" /\ \A i \in 1..Len(a.items) : a.items[i] \in Triples
               THEN /\ result' = PyTrue
                    /\ pattern'[g].graph = pattern[g].graph \o a.items
               ELSE /\ result' = PyFalse
                    /\ pattern' = pattern]_vars

\* C8 witness: a list of two Triples was added to an empty pattern
C8_Witness ==
    /\ call = Mutator
    /\ result = PyTrue
    /\ \E g \in PatternIds : \E a \in TripleArgs :
           /\ a.type = "list"
           /\ Len(a.items) = 2
           /\ pattern[g].graph = a.items
           /\ \A i \in 1..2 : a.items[i] \in Triples

\* C9: a render changes no object, and a render repeated on the same object
\* at the same depth right after returns the same result.
C9_RenderPure ==
    [][call'.op = "get_text" =>
           /\ heap' = heap
           /\ call' = call => result' = result]_vars

\* C9 witness: a select query without variables, whose render emits a "*",
\* was rendered to a text and has no variables still
C9_Witness ==
    /\ RenderedText({"SPARQLSelectQuery"})
    /\ query[call.self.id].variables = <<>>
    /\ query[call.self.id].where # None
    /\ Count(result.text, "*") = 1

\* the lines of a rendered graph pattern that stand in its own block and not
\* in a nested one, without their indentation and without the closing line
OwnLines(lines) ==
    LET own == SelectSeq([i \in 1..Len(lines) |-> <<i, lines[i]>>],
                         LAMBDA x : x[1] < Len(lines) /\ LineDepth(lines, x[1]) = 1)
    IN  [i \in 1..Len(own) |-> Unindented(own[i][2])]

\* the lines an entry of a graph pattern puts in the block of that pattern:
\* the line of a triple, the opening line(s) of a nested pattern, the line
\* that opens the block of a nested select query
EntryLines(entry) ==
    CASE entry.type = "Triple" ->
            <<<<entry.subject, " ", entry.predicate, " ", entry.object, " ", ".">>>>
      [] entry.type = "SPARQLGraphPattern" ->
            IF pattern[entry.id].is_optional THEN <<<<"OPTIONAL", " ", "{">>>>
            ELSE IF pattern[entry.id].is_union THEN <<<<"UNION">>, <<"{">>>>
            ELSE <<<<"{">>>>
      [] entry.type = "SPARQLSelectQuery" -> <<<<"{">>>>

\* the entries in the order of the list, then the bindings, then the filters
ExpectedOwnLines(self) ==
    Flatten([i \in 1..Len(self.graph) |-> EntryLines(self.graph[i])])
        \o [i \in 1..Len(self.bindings) |-> Binding_get_text(self.bindings[i])]
        \o [i \in 1..Len(self.filters) |-> Filter_get_text(self.filters[i])]

\* the text just rendered holds, in the pattern's own block, the lines of the
\* entries in list order, then of the bindings, then of the filters
OwnLinesInOrder ==
    RenderedText({"SPARQLGraphPattern"}) =>
        OwnLines(Lines(result.text)) = ExpectedOwnLines(pattern[call.self.id])

\* a step that adds a having to a graph pattern changes the result of no
\* render of any graph pattern at any depth
HavingsInert ==
    \A g \in PatternIds :
        pattern'[g].havings # pattern[g].havings
            => \A obj \in PatternRefs, d \in DepthArgs :
                   get_text(obj, d)' = get_text(obj, d)

TopLines(lines) ==
    LET top == SelectSeq([i \in 1..Len(lines) |-> <<i, lines[i]>>],
                         LAMBDA x : /\ Unindented(x[2]) # <<>>
                                    /\ LineDepth(lines, x[1]) = 0)
    IN  [i \in 1..Len(top) |-> Unindented(top[i][2])]

\* a line up to what follows its keywords: the SELECT line up to the
\* projection, the WHERE line up to the pattern; any other line whole
LineHead(line) ==
    IF line[1] = "SELECT"
    THEN IF Len(line) >= 4 /\ line[3] = "DISTINCT"
         THEN SubSeq(line, 1, 4) ELSE SubSeq(line, 1, 2)
    ELSE IF line[1] = "WHERE" THEN <<"WHERE">>
    ELSE line

\* the parts of a select query in the order they are to be emitted
ExpectedTopLines(self) ==
    [i \in 1..Len(self.prefixes) |->
        <<"PREFIX", " ", self.prefixes[i].prefix, ":", " ", "<",
          self.prefixes[i].namespace, ">">>]
        \o <<(<<"SELECT", " ">>
                \o (IF self.distinct THEN <<"DISTINCT", " ">> ELSE <<>>))>>
        \o <<(<<"WHERE">>)>>
        \o [i \in 1..Len(self.group_by) |-> GroupBy_get_text(self.group_by[i])]
        \o [i \in 1..Len(self.having) |-> Having_get_text(self.having[i])]
        \o [i \in 1..Len(self.order_by) |-> OrderBy_get_text(self.order_by[i])]
        \o (IF self.limit # 0
            THEN <<(<<"LIMIT", " ", ToString(self.limit)>>)>> ELSE <<>>)

\* C12: the text of a select query holds, outside the blocks, the lines of
\* its prefixes in the order they were added, then the SELECT line, with
\* DISTINCT right after SELECT exactly when distinct is set, then the WHERE
\* line, then the GROUP BY lines, the HAVING lines and the ORDER BY lines,
\* then a LIMIT line exactly when a limit is set, which then is the last
\* line of the text.
C12_PartOrder ==
    RenderedText({"SPARQLSelectQuery"}) =>
        LET self == query[call.self.id]
            lines == Lines(result.text)
            top == TopLines(lines)
        IN  /\ [i \in 1..Len(top) |-> LineHead(top[i])] = ExpectedTopLines(self)
            /\ (FirstToken(lines[Len(lines)]) = "LIMIT") = (self.limit # 0)

\* C12 witness: a select query with a HAVING clause, an ORDER BY clause and
\* a limit was rendered to a text
C12_Witness ==
    /\ RenderedText({"SPARQLSelectQuery"})
    /\ query[call.self.id].having # <<>>
    /\ query[call.self.id].order_by # <<>>
    /\ query[call.self.id].limit # 0

====
